---- MODULE Spec2Model ----
(***************************************************************************)
(* Model of the component dependency resolver, the skaffold aggregator and *)
(* the component generators of django-superapp-deploy:                     *)
(*   src/components/base/component_types.py   Component                    *)
(*   src/components/base/generate_skaffolds.py                             *)
(*       _get_component_id, _resolve_dependencies, generate_skaffolds      *)
(*   src/components/<name>/main.py            the generators (fleet.yaml)  *)
(*                                                                         *)
(* Component objects live in a heap (Python references): heap[o] holds the *)
(* fields of object o, and depends_on holds references to other objects.   *)
(* Strings are TLA+ strings, so the f-string of _get_component_id is a     *)
(* real concatenation and two different field tuples can give one id.      *)
(*                                                                         *)
(* Three specifications share the actions of generate_skaffolds:           *)
(*   Spec           component graphs of all shapes over plain bundles      *)
(*   SpecFragments  few components over bundles with files of all kinds    *)
(*   SpecDriver     the generators build the components and the bundles    *)
(***************************************************************************)
EXTENDS Integers, Sequences, FiniteSets, TLC

(***************************************************************************)
(* Bounds of the model.                                                    *)
(***************************************************************************)
\* number of Component objects on the heap
MaxComponents == 4
\* longest depends_on list
MaxDeps == 2
\* longest list handed to generate_skaffolds
MaxRoots == 2
\* number of calls of generate_skaffolds in one run of the driver
MaxCalls == 2
\* number of files in the bundle under study
MaxFiles == 3

Obj == 1..MaxComponents

VARIABLES
    heap,                   \* the Component objects: [Obj -> Component record]
    components,             \* the list handed to generate_skaffolds (references)
    fs,                     \* the files under the output root: path -> content
    dirs,                   \* the directories that exist under the output root, by
                            \* dir_name ("" is the output root itself)
    pc,                     \* where the driver is: "idle", "loop", "returned", "raised"
    visited,                \* generate_skaffolds.py:23, as the last call left it
    resolved_components,    \* generate_skaffolds.py:22/49
    walk,                   \* history: the calls of visit_component of the last call
    global_skaffold_paths,  \* generate_skaffolds.py:53
    position,               \* index in resolved_components of the for loop of line 54
    error,                  \* the exception that ended the call, or "none"
    oplog,                  \* history: the filesystem operations of the current call
                            \* (a glob with the list sorted() returned for it)
    returned,               \* history: one record per call that returned
    initial,                \* history: the files before the first call
    generator_calls         \* history: the calls of the component generators

vars == <<heap, components, fs, dirs, pc, visited, resolved_components, walk,
          global_skaffold_paths, position, error, oplog, returned, initial,
          generator_calls>>

\* Python's None, for depends_on=None (0 is no reference)
None == <<0>>

\* The interpreter's recursion limit (sys.getrecursionlimit(), 1000 frames by
\* default), scaled to the model: deeper than any acyclic chain of the heap.
RecursionLimit == MaxComponents + 2

(***************************************************************************)
(* Strings.                                                                *)
(***************************************************************************)
\* Python's `sub in s`
Contains(s, sub) ==
    \E i \in 1..(Len(s) - Len(sub) + 1) : SubSeq(s, i, i + Len(sub) - 1) = sub

\* Python's s.startswith(prefix)
StartsWith(s, prefix) ==
    /\ Len(prefix) <= Len(s)
    /\ SubSeq(s, 1, Len(prefix)) = prefix

\* Python's s.replace(old, new): every non-overlapping occurrence, left to right
RECURSIVE Replace(_, _, _)
Replace(s, old, new) ==
    IF Len(s) < Len(old) THEN s
    ELSE IF SubSeq(s, 1, Len(old)) = old
         THEN new \o Replace(SubSeq(s, Len(old) + 1, Len(s)), old, new)
         ELSE SubSeq(s, 1, 1) \o Replace(SubSeq(s, 2, Len(s)), old, new)

\* the elements of a sequence
Range(s) == {s[i] : i \in DOMAIN s}

(***************************************************************************)
(* component_types.py: Component.  A heap cell holds the four dataclass    *)
(* fields, the extension payload of a subclass (certificate_secret_name,   *)
(* issuer_secret_name) and the depends_on attribute the generators pass:   *)
(* None or a list of references.                                           *)
(***************************************************************************)
Component(slug, namespace, dir_name, fleet_name, payload, depends_on) ==
    [slug |-> slug, namespace |-> namespace, dir_name |-> dir_name,
     fleet_name |-> fleet_name, payload |-> payload, depends_on |-> depends_on]

\* component_types.py:20-28
as_fleet_dependency(component) == [name |-> component.fleet_name]

\* a reference that names the bundle from the output root
as_skaffold_dependency_from_root(component) ==
    [path |-> "./" \o component.dir_name \o "/skaffold.yaml"]

\* component_types.py:30-38
as_skaffold_dependency(component) ==
    [path |-> "../" \o component.dir_name \o "/skaffold.yaml"]

\* generate_skaffolds.py:12-14
_get_component_id(component) ==
    component.slug \o ":" \o component.namespace \o ":" \o component.dir_name
        \o ":" \o component.fleet_name

\* a Component built by the dataclass constructor of component_types.py:15-18:
\* the class has no depends_on field, so the object has no such attribute
Missing == <<-1>>

\* Python truthiness of `if component.depends_on:` (None and [] are falsy)
Truthy(depends_on) == depends_on # None /\ depends_on # <<>>

(***************************************************************************)
(* _resolve_dependencies.  The locals of one call are the record           *)
(*   [visited, resolved_components, walk, raised]                          *)
(* visited and resolved_components are the closure variables of            *)
(* visit_component; walk is a history of the calls of visit_component, in  *)
(* call order (who was called, at which depth, and whether the call        *)
(* returned at line 28); raised names the exception that propagates, or   *)
(* is "none".                                                              *)
(***************************************************************************)
RECURSIVE visit_component(_, _, _, _)
RECURSIVE visit_dependencies(_, _, _, _, _)

\* a walk that takes depends_on from the last entry to the first
RECURSIVE visit_dependencies_reversed(_, _, _, _, _)
visit_dependencies_reversed(h, depends_on, i, st, depth) ==
    IF i > Len(depends_on) \/ st.raised # "none" THEN st
    ELSE visit_dependencies_reversed(h, depends_on, i + 1,
            visit_component(h, depends_on[Len(depends_on) + 1 - i], st, depth + 1), depth)

\* generate_skaffolds.py:32-33, the for loop over component.depends_on from
\* position i on, inside a frame at the given depth
visit_dependencies(h, depends_on, i, st, depth) ==
    IF i > Len(depends_on) \/ st.raised # "none" THEN st
    ELSE visit_dependencies(h, depends_on, i + 1,
                            visit_component(h, depends_on[i], st, depth + 1), depth)

\* the walk without lines 27-28 and 36: no component is ever taken as visited
visit_component_naive(h, component, st, depth) ==
    IF depth > RecursionLimit
    THEN [st EXCEPT !.raised = "RecursionError"]
    ELSE
    LET entered == [st EXCEPT !.walk = Append(@, [comp |-> component,
                                   depth |-> depth, skipped |-> FALSE])]
        after == IF Truthy(h[component].depends_on)
                 THEN visit_dependencies(h, h[component].depends_on, 1, entered, depth)
                 ELSE entered
    IN  IF after.raised # "none" THEN after
        ELSE [after EXCEPT !.resolved_components = Append(@, component),
                           !.visited = @ \cup {_get_component_id(h[component])}]

\* the walk that forgets line 38: nothing is ever added to visited
visit_component_unmarked(h, component, st, depth) ==
    IF depth > RecursionLimit
    THEN [st EXCEPT !.raised = "RecursionError"]
    ELSE
    LET component_id == _get_component_id(h[component]) IN
    IF component_id \in st.visited
    THEN [st EXCEPT !.walk = Append(@, [comp |-> component, depth |-> depth,
                                        skipped |-> TRUE])]
    ELSE
    LET entered == [st EXCEPT !.walk = Append(@, [comp |-> component,
                                   depth |-> depth, skipped |-> FALSE])]
        after == IF Truthy(h[component].depends_on)
                 THEN visit_dependencies(h, h[component].depends_on, 1, entered, depth)
                 ELSE entered
    IN  IF after.raised # "none" THEN after
        ELSE IF component_id \notin after.visited
        THEN [after EXCEPT !.resolved_components = Append(@, component)]
        ELSE after

\* the walk that tests line 27 but goes on into the dependencies of a component
\* whose id is visited
visit_component_revisiting(h, component, st, depth) ==
    IF depth > RecursionLimit
    THEN [st EXCEPT !.raised = "RecursionError"]
    ELSE
    LET component_id == _get_component_id(h[component])
        entered == [st EXCEPT !.walk = Append(@, [comp |-> component, depth |-> depth,
                                       skipped |-> component_id \in st.visited])]
        after == IF h[component].depends_on = Missing
                 THEN [entered EXCEPT !.raised = "AttributeError"]
                 ELSE IF Truthy(h[component].depends_on)
                 THEN visit_dependencies(h, h[component].depends_on, 1, entered, depth)
                 ELSE entered
    IN  IF after.raised # "none" THEN after
        ELSE IF component_id \notin after.visited
        THEN [after EXCEPT !.resolved_components = Append(@, component),
                           !.visited = @ \cup {component_id}]
        ELSE after

\* generate_skaffolds.py:25-38; reading component.depends_on at line 31 raises
\* AttributeError when the object has no such attribute
visit_component(h, component, st, depth) ==
    IF depth > RecursionLimit
    THEN [st EXCEPT !.raised = "RecursionError"]
    ELSE
    LET component_id == _get_component_id(h[component]) IN
    IF component_id \in st.visited
    THEN [st EXCEPT !.walk = Append(@, [comp |-> component, depth |-> depth,
                                        skipped |-> TRUE])]
    ELSE
    LET entered == [st EXCEPT !.walk = Append(@, [comp |-> component,
                                   depth |-> depth, skipped |-> FALSE])]
        after == IF h[component].depends_on = Missing
                 THEN [entered EXCEPT !.raised = "AttributeError"]
                 ELSE IF Truthy(h[component].depends_on)
                 THEN visit_dependencies(h, h[component].depends_on, 1, entered, depth)
                 ELSE entered
    IN  IF after.raised # "none" THEN after
        ELSE IF component_id \notin after.visited
        THEN [after EXCEPT !.resolved_components = Append(@, component),
                           !.visited = @ \cup {component_id}]
        ELSE after

\* locals that outlive the call: visited is the set the last call left
StaleLocals == [visited |-> visited, resolved_components |-> <<>>, walk |-> <<>>,
                raised |-> "none"]

\* generate_skaffolds.py:22-23
NewLocals == [visited |-> {}, resolved_components |-> <<>>, walk |-> <<>>,
              raised |-> "none"]

\* generate_skaffolds.py:41-42, the for loop over the roots from position i on
RECURSIVE visit_roots(_, _, _, _)
visit_roots(h, roots, i, st) ==
    IF i > Len(roots) \/ st.raised # "none" THEN st
    ELSE visit_roots(h, roots, i + 1, visit_component(h, roots[i], st, 1))

\* generate_skaffolds.py:17-44
_resolve_dependencies(h, roots) == visit_roots(h, roots, 1, NewLocals)

(***************************************************************************)
(* The filesystem.  constants.py:85 reads GENERATED_SKAFFOLD_TMP_DIR from  *)
(* the environment; the model fixes one output root.  A file content is    *)
(* the YAML document as a record.                                          *)
(***************************************************************************)
GENERATED_SKAFFOLD_TMP_DIR == "/t"

\* the f-string prefix of generate_skaffolds.py:60 and 64
BundleRoot(dir_name) == GENERATED_SKAFFOLD_TMP_DIR \o "/" \o dir_name \o "/"

\* the last path component
RECURSIVE Basename(_)
Basename(path) ==
    IF ~Contains(path, "/") THEN path
    ELSE Basename(Tail(path))

\* generate_skaffolds.py:60, glob.glob(f"{TMP}/{dir_name}/**/*.*", recursive=True):
\* the entries at any depth below the bundle directory whose name has a dot
\* and is not hidden
Glob(files, dir_name) ==
    {path \in files :
        /\ StartsWith(path, BundleRoot(dir_name))
        /\ Contains(Basename(path), ".")
        /\ ~StartsWith(Basename(path), ".")}

\* generate_skaffolds.py:61, the sort key
SortKey(x) == (IF Contains(x, "operator") THEN -1 ELSE 1) * Len(x)

\* generate_skaffolds.py:60-61, sorted(..., key=..., reverse=False): the sort is
\* stable and glob returns the entries in directory order, which is arbitrary,
\* so every arrangement that is nondecreasing in the key can come out
Sorted(paths) ==
    {s \in [1..Cardinality(paths) -> paths] :
        /\ \A i, j \in DOMAIN s : i # j => s[i] # s[j]
        /\ \A i, j \in DOMAIN s : i < j => SortKey(s[i]) <= SortKey(s[j])}

\* generate_skaffolds.py:62, the filter of the loop body
IsFragment(filepath) ==
    /\ Contains(filepath, "/skaffold-")
    /\ ~Contains(filepath, "/skaffold-with-build-")

\* generate_skaffolds.py:59-65, skaffold_paths for one arrangement of the glob
RECURSIVE SkaffoldPaths(_, _)
SkaffoldPaths(sorted, dir_name) ==
    IF sorted = <<>> THEN <<>>
    ELSE LET filepath == Head(sorted)
             rest == SkaffoldPaths(Tail(sorted), dir_name)
         IN  IF IsFragment(filepath)
             THEN <<[path |-> Replace(filepath, BundleRoot(dir_name), "./")]>> \o rest
             ELSE rest

\* generate_skaffolds.py:68-72 and 79-83, the document handed to yaml.dump
Config(requires) ==
    [apiVersion |-> "skaffold/v3", kind |-> "Config", requires |-> requires]

\* generate_skaffolds.py:67-68, the path of the primary manifest
PrimaryManifest(dir_name) ==
    GENERATED_SKAFFOLD_TMP_DIR \o "/" \o dir_name \o "/skaffold.yaml"

\* a loop that takes the resolved list from its end
ComponentAtReversed(resolved, i) == resolved[Len(resolved) + 1 - i]

\* generate_skaffolds.py:54, the component of iteration i of the for loop
ComponentAt(resolved, i) == resolved[i]

\* a loop without the test of line 56
NeverMetadataOnly(component) == FALSE

\* generate_skaffolds.py:56
IsMetadataOnly(component) == component.dir_name = ""

\* a loop without the test of line 67
AlwaysNeedsPrimary(files, dir_name) == TRUE

\* a loop whose test of line 67 always finds the primary manifest
NeverNeedsPrimary(files, dir_name) == FALSE

\* generate_skaffolds.py:67, not os.path.isfile(...)
NeedsPrimary(files, dir_name) == PrimaryManifest(dir_name) \notin files

\* a reference put at the head of the list
PrependReference(paths, dir_name) ==
    <<[path |-> dir_name \o "/skaffold.yaml"]>> \o paths

\* generate_skaffolds.py:74-76
AddReference(paths, dir_name) ==
    Append(paths, [path |-> dir_name \o "/skaffold.yaml"])

MainSkaffold == GENERATED_SKAFFOLD_TMP_DIR \o "/skaffold--main--all.yaml"

\* a write that opens the file for appending: the requires of the document go
\* after those the file holds
WriteAppending(files, path, content) ==
    [p \in (DOMAIN files) \cup {path} |->
        IF p # path THEN files[p]
        ELSE IF path \in DOMAIN files
             THEN [content EXCEPT !.requires = files[path].requires \o @]
             ELSE content]

\* a loop that takes the roots off the caller's list (components.pop(0))
ListAfterPops(roots) == <<>>

\* generate_skaffolds.py:41-42, `for component in components:` iterates over
\* the caller's list; the list is what it was when the loop is done
ListAfterLoop(roots) == roots

\* ilio.write(path, content) on an existing directory
Write(files, path, content) ==
    [p \in (DOMAIN files) \cup {path} |-> IF p = path THEN content ELSE files[p]]

(***************************************************************************)
(* The inputs.  Object o is built like a generator builds it (namespace/   *)
(* main.py:95-101): fields from the arguments, depends_on a list of        *)
(* components built shortly before it, or None.  One clash at most makes   *)
(* two neighbours share an identity, a colon-joined id or a directory, or  *)
(* makes one component metadata-only.  A caller error can close a cycle:   *)
(* object 1 may be given object 2 as its dependency afterwards.            *)
(***************************************************************************)
Letters == <<"a", "b", "c", "d", "e", "f", "g", "h">>

\* sequences over S of length at most n
RECURSIVE SeqsUpTo(_, _)
SeqsUpTo(S, n) ==
    IF n = 0 THEN {<<>>}
    ELSE LET shorter == SeqsUpTo(S, n - 1)
         IN  shorter \cup {Append(q, x) : q \in shorter, x \in S}

NoRepeat(q) == \A i, j \in DOMAIN q : i # j => q[i] # q[j]

\* the depends_on values object o can be given
DependsOnChoices(o) ==
    IF o = 1 THEN {None, <<2>>}
    ELSE {q \in SeqsUpTo({p \in Obj : p < o /\ p >= o - MaxDeps}, MaxDeps) : NoRepeat(q)}

Fields(slug, namespace, dir_name, fleet_name) ==
    [slug |-> slug, namespace |-> namespace, dir_name |-> dir_name,
     fleet_name |-> fleet_name]

\* what a generator called with slug Letters[o] makes of it
Own(o) == Fields(Letters[o], "n", Letters[o], Letters[o])

\* the field assignments: all different, or one clash
FieldChoices ==
    {[o \in Obj |-> Own(o)]}
    \cup {[o \in Obj |-> IF o = y THEN Own(y - 1) ELSE Own(o)] : y \in Obj \ {1}}
    \cup {[o \in Obj |->
             IF o = y - 1 THEN Fields(Letters[y] \o ":n", "n", Letters[y], Letters[y])
             ELSE IF o = y THEN Fields(Letters[y], "n:n", Letters[y], Letters[y])
             ELSE Own(o)] : y \in Obj \ {1}}
    \cup {[o \in Obj |-> IF o = x THEN [Own(o) EXCEPT !.dir_name = ""] ELSE Own(o)] :
            x \in Obj}
    \cup {[o \in Obj |-> IF o = y THEN [Own(o) EXCEPT !.dir_name = Letters[y - 1]]
                         ELSE Own(o)] : y \in Obj \ {1}}

Heaps ==
    {[o \in Obj |-> Component(f[o].slug, f[o].namespace, f[o].dir_name,
                              f[o].fleet_name, "secret-" \o Letters[o], d[o])] :
        f \in FieldChoices,
        d \in {dd \in [Obj -> UNION {DependsOnChoices(o) : o \in Obj}] :
                 \A o \in Obj : dd[o] \in DependsOnChoices(o)}}

Roots == SeqsUpTo(Obj, MaxRoots)

\* what a generator leaves in its bundle directory (namespace/main.py:77,93)
BundleFiles == {"skaffold-ns.yaml", "fleet.yaml"}

\* a primary manifest that was written by hand or by a generator
OwnPrimary == Config(<<[path |-> "./own.yaml"]>>)

\* the bundle of dir_name in one of three conditions
Bundle(dir_name, condition) ==
    LET root == GENERATED_SKAFFOLD_TMP_DIR \o "/" \o dir_name \o "/"
        generated == {root \o name : name \in BundleFiles}
    IN  IF condition = "missing" THEN {}
        ELSE IF condition = "generated" THEN generated
        ELSE generated \cup {root \o "skaffold.yaml"}

Conditions == {"missing", "generated", "complete"}

FileContent(path) == IF Basename(path) = "skaffold.yaml" THEN OwnPrimary ELSE Config(<<>>)

\* the bundle directories a heap names
DirNames(h) == {h[o].dir_name : o \in Obj} \ {""}

(***************************************************************************)
(* The state machine: a driver that holds a component list and calls       *)
(* generate_skaffolds on it, up to MaxCalls times.                         *)
(***************************************************************************)
Init ==
    /\ heap \in Heaps
    /\ components \in Roots
    /\ \E condition \in Conditions :
         LET files == UNION {Bundle(d, condition) : d \in DirNames(heap)}
         IN  /\ fs = [path \in files |-> FileContent(path)]
             /\ dirs = {""} \cup (IF condition = "missing" THEN {} ELSE DirNames(heap))
    /\ pc = "idle"
    /\ visited = {}
    /\ resolved_components = <<>>
    /\ walk = <<>>
    /\ global_skaffold_paths = <<>>
    /\ position = 0
    /\ error = "none"
    /\ oplog = <<>>
    /\ returned = <<>>
    /\ initial = fs
    /\ generator_calls = <<>>

\* generate_skaffolds.py:47-53: the call, the resolution and the empty global list
CallGenerateSkaffolds ==
    /\ pc \in {"idle", "returned"}
    /\ Len(returned) < MaxCalls
    /\ LET st == _resolve_dependencies(heap, components)
       IN  /\ visited' = st.visited
           /\ resolved_components' = st.resolved_components
           /\ walk' = st.walk
           /\ pc' = IF st.raised # "none" THEN "raised" ELSE "loop"
           /\ error' = st.raised
    /\ global_skaffold_paths' = <<>>
    /\ position' = 1
    /\ oplog' = <<>>
    /\ components' = ListAfterLoop(components)
    /\ UNCHANGED <<generator_calls, heap, fs, dirs, returned, initial>>

\* generate_skaffolds.py:54-57: a metadata-only component is skipped
SkipComponent ==
    /\ pc = "loop"
    /\ position <= Len(resolved_components)
    /\ IsMetadataOnly(heap[ComponentAt(resolved_components, position)])
    /\ position' = position + 1
    /\ UNCHANGED <<generator_calls, heap, components, fs, dirs, pc, visited, resolved_components, walk,
                   global_skaffold_paths, error, oplog, returned, initial>>

\* an entry of oplog: a glob of a bundle, with the files on disk at that time,
\* the list sorted() returned and the skaffold_paths collected from it
GlobOp(dir_name, files, sorted) ==
    [op |-> "glob", path |-> BundleRoot(dir_name), files |-> files, found |-> sorted,
     paths |-> SkaffoldPaths(sorted, dir_name)]

\* an entry of oplog: a call of ilio.write
WriteOp(path) ==
    [op |-> "write", path |-> path, files |-> {}, found |-> <<>>, paths |-> <<>>]

\* generate_skaffolds.py:54-76: one bundle; its primary manifest is there, or
\* it is written into the existing bundle directory
ProcessComponent ==
    /\ pc = "loop"
    /\ position <= Len(resolved_components)
    /\ ~IsMetadataOnly(heap[ComponentAt(resolved_components, position)])
    /\ LET dir_name == heap[ComponentAt(resolved_components, position)].dir_name
           primary == PrimaryManifest(dir_name)
       IN  /\ NeedsPrimary(DOMAIN fs, dir_name) => dir_name \in dirs
           /\ \E sorted \in Sorted(Glob(DOMAIN fs, dir_name)) :
                LET skaffold_paths == SkaffoldPaths(sorted, dir_name)
                IN  IF NeedsPrimary(DOMAIN fs, dir_name)
                    THEN /\ fs' = Write(fs, primary, Config(skaffold_paths))
                         /\ oplog' = oplog \o <<GlobOp(dir_name, DOMAIN fs, sorted),
                                                WriteOp(primary)>>
                    ELSE /\ fs' = fs
                         /\ oplog' = Append(oplog, GlobOp(dir_name, DOMAIN fs, sorted))
           /\ global_skaffold_paths' = AddReference(global_skaffold_paths, dir_name)
    /\ position' = position + 1
    /\ UNCHANGED <<generator_calls, heap, components, dirs, pc, visited, resolved_components, walk,
                   error, returned, initial>>

\* generate_skaffolds.py:67-68 when the bundle directory does not exist: ilio is
\* not part of the repository; open() inside it fails with FileNotFoundError
ProcessComponentRaises ==
    /\ pc = "loop"
    /\ position <= Len(resolved_components)
    /\ ~IsMetadataOnly(heap[ComponentAt(resolved_components, position)])
    /\ LET dir_name == heap[ComponentAt(resolved_components, position)].dir_name
       IN  /\ NeedsPrimary(DOMAIN fs, dir_name)
           /\ dir_name \notin dirs
           /\ \E sorted \in Sorted(Glob(DOMAIN fs, dir_name)) :
                oplog' = oplog \o <<GlobOp(dir_name, DOMAIN fs, sorted),
                                    WriteOp(PrimaryManifest(dir_name))>>
    /\ pc' = "raised"
    /\ error' = "FileNotFoundError"
    /\ UNCHANGED <<generator_calls, heap, components, fs, dirs, visited, resolved_components, walk,
                   global_skaffold_paths, position, returned, initial>>

\* generate_skaffolds.py:77-83: the global build descriptor, and the return
WriteMainSkaffold ==
    /\ pc = "loop"
    /\ position > Len(resolved_components)
    /\ fs' = Write(fs, MainSkaffold, Config(global_skaffold_paths))
    /\ oplog' = Append(oplog, WriteOp(MainSkaffold))
    /\ pc' = "returned"
    /\ returned' = Append(returned, [resolved_components |-> resolved_components,
                                     before |-> IF returned = <<>> THEN initial
                                                ELSE returned[Len(returned)].after,
                                     after |-> fs',
                                     oplog |-> oplog'])
    /\ UNCHANGED <<generator_calls, heap, components, dirs, visited, resolved_components, walk,
                   global_skaffold_paths, position, error, initial>>

Next ==
    \/ CallGenerateSkaffolds
    \/ SkipComponent
    \/ ProcessComponent
    \/ ProcessComponentRaises
    \/ WriteMainSkaffold

Spec == Init /\ [][Next]_vars

(***************************************************************************)
(* A second family of inputs, for the handling of the files of a bundle:   *)
(* few components, and a bundle that holds any MaxFiles of the files a     *)
(* bundle directory can hold.  Component 1 has the bundle under study,     *)
(* component 2 a bundle whose dir_name has the word operator (as           *)
(* longhorn_operator.py:47 names it), component 3 is metadata-only, and    *)
(* the bundle directory of every other component exists or not.            *)
(***************************************************************************)
\* the files of bundle a, as paths below the bundle directory: fragments of
\* equal and of different length, an operator fragment, the reserved variant,
\* the delivery manifest, a raw manifest, a file in a directory whose name
\* starts with skaffold-, the primary manifest, and a fragment in a directory
\* whose path repeats the path of the bundle
FilePool ==
    {"skaffold-ns.yaml", "skaffold-db.yaml", "skaffold-longer.yaml",
     "skaffold-operator.yaml", "skaffold-with-build-ns.yaml", "fleet.yaml",
     "manifests/ns.yaml", "skaffold-d/values.yaml", "skaffold.yaml",
     "x" \o BundleRoot("a") \o "skaffold-z.yaml"}

\* the subsets of S with at most n elements
RECURSIVE SubsetsUpTo(_, _)
SubsetsUpTo(S, n) ==
    IF n = 0 THEN {{}}
    ELSE LET smaller == SubsetsUpTo(S, n - 1)
         IN  smaller \cup {T \cup {x} : T \in smaller, x \in S}

FragmentsHeap ==
    [o \in Obj |->
        IF o = 1 THEN Component("a", "n", "a", "a", "secret-a", None)
        ELSE IF o = 2
        THEN Component("b", "n", "b-operator", "b-operator", "secret-b", <<1>>)
        ELSE IF o = 3 THEN Component("c", "n", "", "c", "secret-c", <<>>)
        ELSE Component(Letters[o], "n", Letters[o], Letters[o],
                       "secret-" \o Letters[o], None)]

InitFragments ==
    /\ heap = FragmentsHeap
    /\ components \in Roots
    /\ \E chosen \in SubsetsUpTo(FilePool, MaxFiles), others \in BOOLEAN :
         LET files == {BundleRoot("a") \o name : name \in chosen}
                      \cup {BundleRoot("b-operator") \o name :
                               name \in {"skaffold-longer.yaml", "skaffold-ns.yaml"}}
                      \cup (IF others
                            THEN {BundleRoot(heap[o].dir_name) \o "skaffold-ns.yaml" :
                                    o \in Obj \ {1, 2, 3}}
                            ELSE {})
         IN  /\ fs = [path \in files |-> FileContent(path)]
             /\ dirs = {"", "a", "b-operator"}
                       \cup (IF others THEN DirNames(heap) ELSE {})
    /\ pc = "idle"
    /\ visited = {}
    /\ resolved_components = <<>>
    /\ walk = <<>>
    /\ global_skaffold_paths = <<>>
    /\ position = 0
    /\ error = "none"
    /\ oplog = <<>>
    /\ returned = <<>>
    /\ initial = fs
    /\ generator_calls = <<>>

SpecFragments == InitFragments /\ [][Next]_vars

\* a path cut at its slashes
RECURSIVE SplitPath(_, _)
SplitPath(path, name) ==
    IF path = "" THEN <<name>>
    ELSE IF SubSeq(path, 1, 1) = "/" THEN <<name>> \o SplitPath(Tail(path), "")
    ELSE SplitPath(Tail(path), name \o SubSeq(path, 1, 1))

(***************************************************************************)
(* The composition driver, generate_all_skaffolds of                       *)
(* sample_environment/main.py:43-410: it empties the temporary output      *)
(* root, calls the generators (each writes its bundle and then constructs  *)
(* the Component it returns), picks the components it hands to             *)
(* generate_skaffolds, writes the IDE run configurations when they are     *)
(* enabled, syncs the temporary root to the final directory and removes    *)
(* the temporary root.  Six generators stand for the ways the generators   *)
(* of the repository end:                                                  *)
(*   namespace           dependsOn from as_fleet_dependency; depends_on    *)
(*                       passed to the constructor                         *)
(*   ingress-nginx       the same dependsOn; the constructor gets four     *)
(*                       fields                                            *)
(*   rancher             dependsOn replaced by the depends_on list itself  *)
(*   whatsapp-waha       a fleet.yaml without dependsOn; depends_on passed *)
(*   certificate-issuer  fleet_name <slug>-certificates; four fields and   *)
(*                       the issuer secret                                 *)
(*   certificate         fleet_name <slug>-certificates; depends_on passed *)
(***************************************************************************)
\* number of generator calls in one run of the driver
MaxGenerated == 2

Generators ==
    {"namespace", "ingress-nginx", "rancher", "whatsapp-waha",
     "certificate-issuer", "certificate"}

\* the slugs and namespaces the driver passes
Slugs == {"a", "b"}

Namespaces == {"n", "m"}

\* the generators whose final Component(...) call has depends_on=...
\* (namespace/main.py:100, whatsapp-waha/main.py:160,
\* cert_manager_certificate/main.py:128)
PassesDependsOn(generator) == generator \in {"namespace", "whatsapp-waha", "certificate"}

\* component_types.py:14-18, the __init__ the dataclass decorator makes: it
\* takes slug, namespace, dir_name and fleet_name and nothing else
ConstructorRaises(generator) == PassesDependsOn(generator)

\* namespace/main.py:32, cert_manager_issuer/main.py:38,
\* cert_manager_certificate/main.py:38: dir_name = f"{slug}-<generator>"
DirName(generator, slug) == slug \o "-" \o generator

\* namespace/main.py:99 (f"{slug}-namespace"), cert_manager_issuer/main.py:169
\* and cert_manager_certificate/main.py:126 (both f"{slug}-certificates")
FleetName(generator, slug) ==
    IF generator \in {"certificate-issuer", "certificate"} THEN slug \o "-certificates"
    ELSE slug \o "-" \o generator

\* the file a generator writes next to fleet.yaml: its build fragment
\* (namespace/main.py:77, cert_manager_issuer/main.py:159), or the values file
\* of a generator that writes no fragment (whatsapp-waha/main.py:113)
FragmentName(generator) ==
    IF generator \in {"certificate-issuer", "certificate"}
    THEN "skaffold-main-certificates.yaml"
    ELSE IF generator = "whatsapp-waha" THEN "values.yaml"
    ELSE "skaffold-" \o generator \o ".yaml"

\* a dependsOn that lists the slugs of the dependencies
FleetDependsOnSlugs(h, depends_on) ==
    IF Truthy(depends_on)
    THEN [i \in DOMAIN depends_on |-> [name |-> h[depends_on[i]].slug]]
    ELSE <<>>

\* namespace/main.py:81-83, the dependsOn of the delivery manifest
FleetDependsOn(h, depends_on) ==
    IF Truthy(depends_on)
    THEN [i \in DOMAIN depends_on |-> as_fleet_dependency(h[depends_on[i]])]
    ELSE <<>>

\* cert_manager_issuer/main.py:105-107, the requires of the build fragment
FragmentRequires(generator, h, depends_on) ==
    IF generator = "certificate-issuer" /\ Truthy(depends_on)
    THEN [i \in DOMAIN depends_on |-> as_skaffold_dependency(h[depends_on[i]])]
    ELSE <<>>

\* namespace/main.py:80-90, ingress_nginx/main.py:146-158,
\* cert_manager_certificate/main.py:88-109
StandardFleetConfig(h, name, depends_on) ==
    [dependsOn |-> FleetDependsOn(h, depends_on),
     helm |-> [releaseName |-> name],
     labels |-> [name |-> name]]

\* cert_manager_issuer/main.py:122-130
IssuerFleetConfig(h, name, namespace, depends_on) ==
    [namespace |-> namespace,
     dependsOn |-> FleetDependsOn(h, depends_on),
     labels |-> [name |-> name]]

\* rancher/main.py:127-140: when depends_on is truthy the list of Component
\* objects itself is put in place of the projections
RancherFleetConfig(h, name, namespace, depends_on) ==
    [namespace |-> namespace,
     dependsOn |-> IF Truthy(depends_on)
                   THEN [i \in DOMAIN depends_on |-> h[depends_on[i]]]
                   ELSE FleetDependsOn(h, depends_on),
     helm |-> [releaseName |-> name]]

\* whatsapp-waha/main.py:116-125
WahaFleetConfig(namespace) ==
    [namespace |-> namespace,
     helm |-> [chart |-> "whatsapp-waha", values |-> <<"values.yaml">>]]

\* the fleet_config a generator dumps into fleet.yaml
FleetConfig(generator, h, name, namespace, depends_on) ==
    IF generator = "rancher" THEN RancherFleetConfig(h, name, namespace, depends_on)
    ELSE IF generator = "whatsapp-waha" THEN WahaFleetConfig(namespace)
    ELSE IF generator = "certificate-issuer"
    THEN IssuerFleetConfig(h, name, namespace, depends_on)
    ELSE StandardFleetConfig(h, name, depends_on)

\* the depends_on a driver can pass when the objects of h are built
DependsOnArguments(h) ==
    {None} \cup {q \in SeqsUpTo(DOMAIN h, MaxDeps) : NoRepeat(q)}

\* constants.py:83 and 71, read from the environment; the model fixes them
GENERATED_SKAFFOLD_DIR == "/g"

REPO_ROOT == "/r"

\* the directory of intellij_skaffolds_run_configurations/main.py:31
RunConfigurations == REPO_ROOT \o "/.idea/runConfigurations/"

\* sample_environment/main.py:50-51, the empty .gitkeep of the temporary root
GitKeep == [text |-> ""]

\* the final directory as the run before left it: what a run that called
\* create_ingress_nginx(slug="a") and aggregated no component syncs to it
PreviousRun ==
    LET bundle == GENERATED_SKAFFOLD_DIR \o "/" \o DirName("ingress-nginx", "a") \o "/"
        files == {GENERATED_SKAFFOLD_DIR \o "/.gitkeep",
                  GENERATED_SKAFFOLD_DIR \o "/skaffold--main--all.yaml",
                  bundle \o "skaffold-ingress-nginx.yaml",
                  bundle \o "fleet.yaml"}
    IN  [path \in files |->
            IF Basename(path) = ".gitkeep" THEN GitKeep
            ELSE IF Basename(path) = "fleet.yaml"
            THEN StandardFleetConfig(<<>>, FleetName("ingress-nginx", "a"), None)
            ELSE Config(<<>>)]

\* sample_environment/main.py:45-51: the temporary root is emptied and made
\* anew; the final directory is empty or holds the files of the run before
InitDriver ==
    /\ heap = <<>>
    /\ components = <<>>
    /\ \E previous \in BOOLEAN :
         fs = Write(IF previous THEN PreviousRun ELSE [path \in {} |-> GitKeep],
                    GENERATED_SKAFFOLD_TMP_DIR \o "/.gitkeep", GitKeep)
    /\ dirs = {""}
    /\ pc = "idle"
    /\ visited = {}
    /\ resolved_components = <<>>
    /\ walk = <<>>
    /\ global_skaffold_paths = <<>>
    /\ position = 0
    /\ error = "none"
    /\ oplog = <<>>
    /\ returned = <<>>
    /\ initial = fs
    /\ generator_calls = <<>>

\* namespace/main.py:32-93 and the like: the bundle directory, the fragment
\* and the delivery manifest of one generator call, whatever its end
GeneratorWrites(generator, slug, namespace, depends_on) ==
    LET dir_name == DirName(generator, slug)
        written == Write(Write(fs, BundleRoot(dir_name) \o FragmentName(generator),
                               Config(FragmentRequires(generator, heap, depends_on))),
                         BundleRoot(dir_name) \o "fleet.yaml",
                         FleetConfig(generator, heap, FleetName(generator, slug),
                                     namespace, depends_on))
    IN  /\ dirs' = dirs \cup {dir_name}
        /\ fs' = written
        /\ initial' = written
        /\ generator_calls' = Append(generator_calls,
                [generator |-> generator, slug |-> slug, namespace |-> namespace,
                 dir_name |-> dir_name, depends_on |-> depends_on])

\* a generator call that returns its Component: the constructor is called
\* with the four fields (ingress_nginx/main.py:169-174, rancher/main.py:145-150,
\* cert_manager_issuer/main.py:165-171); the driver puts the component in the
\* list it hands to generate_skaffolds, or leaves it out
\* (sample_environment/main.py:385-396)
GeneratorReturns ==
    /\ pc = "idle"
    /\ returned = <<>>
    /\ Len(generator_calls) < MaxGenerated
    /\ \E generator \in Generators, slug \in Slugs, namespace \in Namespaces,
          depends_on \in DependsOnArguments(heap), listed \in BOOLEAN :
         /\ ~ConstructorRaises(generator)
         /\ GeneratorWrites(generator, slug, namespace, depends_on)
         /\ heap' = Append(heap, Component(slug, namespace, DirName(generator, slug),
                                           FleetName(generator, slug), "", Missing))
         /\ components' = IF listed THEN Append(components, Len(heap) + 1)
                          ELSE components
    /\ UNCHANGED <<pc, visited, resolved_components, walk, global_skaffold_paths,
                   position, error, oplog, returned>>

\* a generator call that ends in the TypeError of the constructor, which got
\* the keyword depends_on (namespace/main.py:95-101, whatsapp-waha/main.py:156-161,
\* cert_manager_certificate/main.py:122-129)
GeneratorRaises ==
    /\ pc = "idle"
    /\ returned = <<>>
    /\ Len(generator_calls) < MaxGenerated
    /\ \E generator \in Generators, slug \in Slugs, namespace \in Namespaces,
          depends_on \in DependsOnArguments(heap) :
         /\ ConstructorRaises(generator)
         /\ GeneratorWrites(generator, slug, namespace, depends_on)
    /\ pc' = "raised"
    /\ error' = "TypeError"
    /\ UNCHANGED <<heap, components, visited, resolved_components, walk,
                   global_skaffold_paths, position, oplog, returned>>

\* Python's s.endswith(suffix)
EndsWith(s, suffix) ==
    /\ Len(suffix) <= Len(s)
    /\ SubSeq(s, Len(s) - Len(suffix) + 1, Len(s)) = suffix

\* the name of the directory a file is in, filepath.split("/")[-2]
ParentName(filepath) ==
    LET names == SplitPath(filepath, "") IN names[Len(names) - 1]

\* intellij_skaffolds_run_configurations/main.py:78-80: the build manifests of
\* the final directory, and the global descriptor of the temporary root
RunConfigurationSources(files) ==
    {path \in files :
        /\ StartsWith(path, GENERATED_SKAFFOLD_DIR \o "/")
        /\ EndsWith(Basename(path), ".yaml")
        /\ ~StartsWith(Basename(path), ".")}
    \cup {MainSkaffold}

\* intellij_skaffolds_run_configurations/main.py:84
HasRunConfiguration(filepath) ==
    /\ Contains(Basename(filepath), "skaffold")
    /\ ~Contains(Basename(filepath), "skaffold-without-build")

\* intellij_skaffolds_run_configurations/main.py:85-101 and 113, the file of the
\* run configuration of a build manifest (the prefix is empty by default)
RunConfigurationPath(filepath) ==
    LET replaced == Replace(Replace(Replace(Replace(Basename(filepath),
                        "skaffold-", ""), ".yaml", ""), "with-build-", ""),
                        "without-build-", "")
        skaffold_name == IF replaced = "skaffold" THEN "all" ELSE replaced
        parent == ParentName(filepath)
        dir_name == IF parent = "generated_skaffolds_temp" THEN "deploy" ELSE parent
    IN  RunConfigurations \o "skaffold--" \o "skaffold--" \o dir_name \o "--"
            \o skaffold_name \o ".xml"

\* intellij_skaffolds_run_configurations/main.py:36-38, the run configurations
\* the function removes before it writes the new ones
IsStaleRunConfiguration(path) ==
    /\ StartsWith(path, RunConfigurations)
    /\ EndsWith(path, ".xml")
    /\ Contains(path, "skaffold--")
    /\ ~Contains(path, "skaffold-without-build")

\* intellij_skaffolds_run_configurations/main.py:127-137
MakefileRunConfiguration == RunConfigurations \o "skaffold--_generate_skaffolds.xml"

\* intellij_skaffolds_run_configurations/main.py:30-137, called when the run
\* configurations are enabled (sample_environment/main.py:405-406): one run
\* configuration per build manifest found, each with the path of the manifest
GenerateRunConfigurations ==
    /\ pc = "returned"
    /\ LET kept == {path \in DOMAIN fs : ~IsStaleRunConfiguration(path)}
           sources == {path \in RunConfigurationSources(DOMAIN fs) :
                          HasRunConfiguration(path)}
           targets == {RunConfigurationPath(path) : path \in sources}
       IN  \E source \in [targets -> sources] :
              /\ \A target \in targets : RunConfigurationPath(source[target]) = target
              /\ fs' = [path \in kept \cup targets \cup {MakefileRunConfiguration} |->
                          IF path \in targets
                          THEN [skaffoldConfigurationFilePath |-> source[path]]
                          ELSE IF path = MakefileRunConfiguration
                          THEN [makefile |-> "Makefile"]
                          ELSE fs[path]]
    /\ pc' = "configured"
    /\ UNCHANGED <<generator_calls, heap, components, dirs, visited, resolved_components,
                   walk, global_skaffold_paths, position, error, oplog, returned,
                   initial>>

\* the path below the final directory of a file of the temporary root
SyncedPath(path) ==
    GENERATED_SKAFFOLD_DIR
        \o SubSeq(path, Len(GENERATED_SKAFFOLD_TMP_DIR) + 1, Len(path))

\* sample_environment/main.py:409, rsync -rcvu --delete TMP/ DIR/: the final
\* directory gets the files of the temporary root and loses every other file
Rsync ==
    /\ pc \in {"returned", "configured"}
    /\ LET temporary == {path \in DOMAIN fs :
                            StartsWith(path, GENERATED_SKAFFOLD_TMP_DIR \o "/")}
           elsewhere == {path \in DOMAIN fs :
                            ~StartsWith(path, GENERATED_SKAFFOLD_DIR \o "/")}
           synced == {SyncedPath(path) : path \in temporary}
       IN  fs' = [path \in elsewhere \cup synced |->
                    IF path \in synced
                    THEN fs[CHOOSE t \in temporary : SyncedPath(t) = path]
                    ELSE fs[path]]
    /\ pc' = "synced"
    /\ UNCHANGED <<generator_calls, heap, components, dirs, visited, resolved_components,
                   walk, global_skaffold_paths, position, error, oplog, returned,
                   initial>>

\* sample_environment/main.py:410, rm -rf TMP/
RemoveTemporaryRoot ==
    /\ pc = "synced"
    /\ fs' = [path \in {p \in DOMAIN fs :
                           ~StartsWith(p, GENERATED_SKAFFOLD_TMP_DIR \o "/")} |-> fs[path]]
    /\ dirs' = {}
    /\ pc' = "done"
    /\ UNCHANGED <<generator_calls, heap, components, visited, resolved_components,
                   walk, global_skaffold_paths, position, error, oplog, returned,
                   initial>>

\* the driver: generator calls, then generate_skaffolds on the components it
\* picked, the run configurations, the sync and the removal; no returned
\* Component has depends_on, so the loop over the bundles is reached with the
\* empty list only
NextDriver ==
    \/ GeneratorReturns
    \/ GeneratorRaises
    \/ CallGenerateSkaffolds
    \/ WriteMainSkaffold
    \/ GenerateRunConfigurations
    \/ Rsync
    \/ RemoveTemporaryRoot

SpecDriver == InitDriver /\ [][NextDriver]_vars

(***************************************************************************)
(* Vocabulary of the properties.                                           *)
(***************************************************************************)
\* the objects in the depends_on of object o
DependsOn(o) ==
    IF Truthy(heap[o].depends_on) THEN Range(heap[o].depends_on) ELSE {}

\* the objects reachable from the set S in zero or more depends_on steps
RECURSIVE Closure(_)
Closure(S) ==
    LET next == S \cup UNION {DependsOn(o) : o \in S}
    IN  IF next = S THEN S ELSE Closure(next)

\* the transitive closure of o.depends_on
TransitiveDeps(o) == Closure(DependsOn(o))

\* the objects reachable from the input list
Reachable == Closure(Range(components))

AcyclicInput == \A o \in Reachable : o \notin TransitiveDeps(o)

CyclicInput == ~AcyclicInput

\* the last call of _resolve_dependencies has returned its list
ResolveReturned == pc # "idle" /\ error \in {"none", "FileNotFoundError"}

Id(o) == _get_component_id(heap[o])

Tuple(o) == <<heap[o].slug, heap[o].namespace, heap[o].dir_name, heap[o].fleet_name>>

\* the positions of x in the sequence q, and the first of them (0 when absent)
Positions(q, x) == {i \in DOMAIN q : q[i] = x}

IndexOf(q, x) ==
    IF Positions(q, x) = {} THEN 0
    ELSE CHOOSE i \in Positions(q, x) : \A j \in Positions(q, x) : i <= j

\* q with x put in at position p
InsertAt(q, p, x) == SubSeq(q, 1, p - 1) \o <<x>> \o SubSeq(q, p, Len(q))

\* the first call of visit_component on object o in the walk (0 when never)
FirstReach(o) ==
    LET at == {k \in DOMAIN walk : walk[k].comp = o}
    IN  IF at = {} THEN 0 ELSE CHOOSE k \in at : \A l \in at : k <= l

\* event b lies in the subtree of the call of event a
InSubtree(a, b) ==
    /\ a < b
    /\ \A k \in (a + 1)..b : walk[k].depth > walk[a].depth

\* the calls made directly by the call of event a, in call order
RECURSIVE ChildrenFrom(_, _)
ChildrenFrom(a, k) ==
    IF k > Len(walk) \/ walk[k].depth <= walk[a].depth THEN <<>>
    ELSE IF walk[k].depth = walk[a].depth + 1
         THEN <<walk[k].comp>> \o ChildrenFrom(a, k + 1)
         ELSE ChildrenFrom(a, k + 1)

\* the calls made by the loop over the roots, in call order
RECURSIVE RootCalls(_)
RootCalls(k) ==
    IF k > Len(walk) THEN <<>>
    ELSE IF walk[k].depth = 1 THEN <<walk[k].comp>> \o RootCalls(k + 1)
         ELSE RootCalls(k + 1)

(***************************************************************************)
(* C1.  Dependency before dependent: when the depends_on graph of the      *)
(* input is acyclic, every component of the returned list that lies in the *)
(* transitive closure of the depends_on of another one stands before it.   *)
(***************************************************************************)
C1_DependencyBeforeDependent ==
    (ResolveReturned /\ AcyclicInput) =>
        \A i, j \in DOMAIN resolved_components :
            resolved_components[j] \in TransitiveDeps(resolved_components[i]) => j < i

C3_CyclePolicy ==
    (CyclicInput /\ pc # "idle") => (pc = "raised" /\ error = "CycleError")

(***************************************************************************)
(* C4.  Identity: two components are one node exactly when their tuples    *)
(* (slug, namespace, dir_name, fleet_name) are equal: no two elements of   *)
(* the returned list have equal tuples, and every component the walk met   *)
(* has an element with its own tuple in the returned list.                 *)
(***************************************************************************)
C4_IdentityIsTheTuple ==
    ResolveReturned =>
        /\ \A i, j \in DOMAIN resolved_components :
             i # j => Tuple(resolved_components[i]) # Tuple(resolved_components[j])
        /\ \A k \in DOMAIN walk :
             \E i \in DOMAIN resolved_components :
                Tuple(resolved_components[i]) = Tuple(walk[k].comp)

(***************************************************************************)
(* C5.  Stability under re-supply.  D is reached only through the          *)
(* depends_on of a root; Resupply(D, p) is the list returned when D is     *)
(* also given as a root, at position p of the root list.                   *)
(***************************************************************************)
OnlyTransitive ==
    {D \in Obj : /\ D \notin Range(components)
                 /\ \E r \in Range(components) : D \in TransitiveDeps(r)}

Resupply(D, p) ==
    _resolve_dependencies(heap, InsertAt(components, p, D)).resolved_components

\* what the first p roots alone resolve to
ResolvedByPrefix(p) ==
    _resolve_dependencies(heap, SubSeq(components, 1, p)).resolved_components

\* C5 as claimed: at any position p, D comes out exactly once and at the index
\* it has in the list returned without the re-supply
C5_StableAtAnyPosition ==
    (ResolveReturned /\ AcyclicInput) =>
        \A D \in OnlyTransitive : \A p \in 1..(Len(components) + 1) :
            D \in Range(resolved_components) =>
                /\ Cardinality(Positions(Resupply(D, p), D)) = 1
                /\ IndexOf(Resupply(D, p), D) = IndexOf(resolved_components, D)

\* C5 as amended: when D is supplied at a position by which the roots before
\* it have already put D in the output, the returned list is the same list,
\* so D is in it exactly once and at the same index
C5_StableAfterFirstVisit ==
    (ResolveReturned /\ AcyclicInput) =>
        \A D \in OnlyTransitive : \A p \in 1..(Len(components) + 1) :
            D \in Range(ResolvedByPrefix(p - 1)) =>
                /\ Resupply(D, p) = resolved_components
                /\ Cardinality(Positions(Resupply(D, p), D)) = 1

\* D reached through the first root and supplied again between the two roots
C5_Witness ==
    /\ pc = "returned"
    /\ AcyclicInput
    /\ Len(components) = 2
    /\ \E D \in OnlyTransitive :
         /\ D \in Range(ResolvedByPrefix(1))
         /\ IndexOf(resolved_components, D) > 1

(***************************************************************************)
(* C6.  Determinism: a second call on the same list returns the sequence   *)
(* the first call returned; nothing of the first call reaches the second.  *)
(***************************************************************************)
C6_Determinism ==
    returned # <<>> =>
        /\ error = "none"
        /\ pc \in {"loop", "returned"} =>
              resolved_components = returned[1].resolved_components
        /\ \A k \in DOMAIN returned :
              returned[k].resolved_components = returned[1].resolved_components

\* the second call has returned a list of three, with a shared dependency
C6_Witness ==
    /\ Len(returned) = 2
    /\ Len(resolved_components) >= 3
    /\ \E k \in DOMAIN walk : walk[k].skipped

(***************************************************************************)
(* C7.  Sibling order: the walk calls the roots in input order and the     *)
(* depends_on of each entered component in declared order, and the         *)
(* returned list is its post-order: of two returned components the one     *)
(* entered inside the call of the other comes first, otherwise the one     *)
(* entered first comes first; so two returned components with no           *)
(* dependency relation stand in the order in which the walk reached them.  *)
(***************************************************************************)
C7_PostOrder ==
    (ResolveReturned /\ AcyclicInput) =>
        /\ RootCalls(1) = components
        /\ \A a \in DOMAIN walk :
             ~walk[a].skipped =>
                ChildrenFrom(a, a + 1) =
                    (IF Truthy(heap[walk[a].comp].depends_on)
                     THEN heap[walk[a].comp].depends_on ELSE <<>>)
        /\ \A a, b \in DOMAIN walk :
             (/\ a < b
              /\ ~walk[a].skipped
              /\ ~walk[b].skipped
              /\ walk[a].comp \in Range(resolved_components)
              /\ walk[b].comp \in Range(resolved_components)) =>
                IF InSubtree(a, b)
                THEN IndexOf(resolved_components, walk[b].comp)
                        < IndexOf(resolved_components, walk[a].comp)
                ELSE IndexOf(resolved_components, walk[a].comp)
                        < IndexOf(resolved_components, walk[b].comp)
        /\ \A X, Y \in Range(resolved_components) :
             (X # Y /\ X \notin TransitiveDeps(Y) /\ Y \notin TransitiveDeps(X)) =>
                (IndexOf(resolved_components, X) < IndexOf(resolved_components, Y)
                    <=> FirstReach(X) < FirstReach(Y))

\* two unrelated components in the output, the first of them with a
\* dependency list of two
C7_Witness ==
    /\ pc = "returned"
    /\ AcyclicInput
    /\ \E X, Y \in Range(resolved_components) :
         /\ X # Y
         /\ X \notin TransitiveDeps(Y)
         /\ Y \notin TransitiveDeps(X)
         /\ Cardinality(DependsOn(X)) = 2
         /\ IndexOf(resolved_components, X) < IndexOf(resolved_components, Y)

(***************************************************************************)
(* C8.  Global build descriptor: when generate_skaffolds has returned,     *)
(* skaffold--main--all.yaml requires '<dir_name>/skaffold.yaml' for each   *)
(* component of the resolved order with a dir_name, in that order, and     *)
(* nothing else; the file is there also when the list is empty.            *)
(***************************************************************************)
RECURSIVE ReferencesOf(_)
ReferencesOf(q) ==
    IF q = <<>> THEN <<>>
    ELSE (IF heap[Head(q)].dir_name = "" THEN <<>>
          ELSE <<[path |-> heap[Head(q)].dir_name \o "/skaffold.yaml"]>>)
         \o ReferencesOf(Tail(q))

C8_GlobalDescriptor ==
    pc = "returned" =>
        /\ MainSkaffold \in DOMAIN fs
        /\ fs[MainSkaffold].requires = ReferencesOf(resolved_components)

\* a descriptor of two different references, next to a metadata-only component
C8_Witness ==
    /\ pc = "returned"
    /\ Len(fs[MainSkaffold].requires) = 2
    /\ fs[MainSkaffold].requires[1] # fs[MainSkaffold].requires[2]
    /\ Len(resolved_components) = 3

(***************************************************************************)
(* C9.  Metadata-only components: a component with dir_name "" is in the   *)
(* resolved order, after the identities of its depends_on, and the loop    *)
(* does nothing for it: no glob, no primary manifest, no reference.        *)
(***************************************************************************)
C9_MetadataOnly ==
    /\ (ResolveReturned /\ AcyclicInput) =>
          \A o \in Range(components) :
             heap[o].dir_name = "" =>
                \E i \in DOMAIN resolved_components :
                   Id(resolved_components[i]) = Id(o)
    /\ ResolveReturned =>
          \A i \in DOMAIN resolved_components :
             heap[resolved_components[i]].dir_name = "" =>
                /\ \A d \in DependsOn(resolved_components[i]) :
                      \E j \in 1..(i - 1) : Id(resolved_components[j]) = Id(d)
                /\ \A k \in DOMAIN oplog :
                      oplog[k].path \notin {BundleRoot(""), PrimaryManifest("")}
                /\ PrimaryManifest("") \notin DOMAIN fs
                /\ \A k \in DOMAIN global_skaffold_paths :
                      global_skaffold_paths[k].path # "/skaffold.yaml"
                /\ pc = "returned" =>
                      \A k \in DOMAIN fs[MainSkaffold].requires :
                         fs[MainSkaffold].requires[k].path # "/skaffold.yaml"

\* a metadata-only component with a dependency, resolved next to a bundle
C9_Witness ==
    /\ pc = "returned"
    /\ \E i \in DOMAIN resolved_components :
         /\ heap[resolved_components[i]].dir_name = ""
         /\ DependsOn(resolved_components[i]) # {}
    /\ Len(fs[MainSkaffold].requires) >= 1

(***************************************************************************)
(* C10.  No overwrite: a primary manifest of a resolved component that     *)
(* exists before a call of generate_skaffolds has the same content after   *)
(* it, whatever fragments lie in the bundle.                               *)
(***************************************************************************)
C10_NoOverwrite ==
    \A k \in DOMAIN returned :
        \A i \in DOMAIN returned[k].resolved_components :
            LET primary ==
                  PrimaryManifest(heap[returned[k].resolved_components[i]].dir_name)
            IN  primary \in DOMAIN returned[k].before =>
                    /\ primary \in DOMAIN returned[k].after
                    /\ returned[k].after[primary] = returned[k].before[primary]

\* the first call has returned and met a primary manifest written by hand, in a
\* bundle that holds a fragment
C10_Witness ==
    /\ Len(returned) = 1
    /\ \E i \in DOMAIN resolved_components :
         LET dir_name == heap[resolved_components[i]].dir_name
         IN  /\ PrimaryManifest(dir_name) \in DOMAIN initial
             /\ initial[PrimaryManifest(dir_name)] = OwnPrimary
             /\ \E path \in Glob(DOMAIN initial, dir_name) : IsFragment(path)

(***************************************************************************)
(* Vocabulary of the properties about files.                               *)
(***************************************************************************)
\* the fragments among the paths sorted() returned, in that order
RECURSIVE FragmentsOf(_)
FragmentsOf(sorted) ==
    IF sorted = <<>> THEN <<>>
    ELSE (IF IsFragment(Head(sorted)) THEN <<Head(sorted)>> ELSE <<>>)
         \o FragmentsOf(Tail(sorted))

\* the globs of the calls that returned and of the call in progress
Globs ==
    {e \in UNION {Range(returned[k].oplog) : k \in DOMAIN returned} \cup Range(oplog) :
        e.op = "glob"}

\* the names of an absolute path with "", "." and ".." worked out
RECURSIVE Normalized(_, _)
Normalized(names, done) ==
    IF names = <<>> THEN done
    ELSE IF Head(names) \in {"", "."} THEN Normalized(Tail(names), done)
    ELSE IF Head(names) = ".."
         THEN Normalized(Tail(names), SubSeq(done, 1, Len(done) - 1))
         ELSE Normalized(Tail(names), Append(done, Head(names)))

RECURSIVE JoinPath(_)
JoinPath(names) ==
    IF names = <<>> THEN "" ELSE "/" \o Head(names) \o JoinPath(Tail(names))

\* the file a relative path denotes when it is resolved from a directory
ResolvePath(directory, relative) ==
    JoinPath(Normalized(SplitPath(directory \o "/" \o relative, ""), <<>>))

(***************************************************************************)
(* C11.  Fragment ordering: of the fragments collected for one component,  *)
(* every path with the substring operator stands before every path         *)
(* without it, and the paths without it stand by descending length.        *)
(***************************************************************************)
C11_FragmentOrdering ==
    \A e \in Globs :
        LET fragments == FragmentsOf(e.found)
        IN  \A i, j \in DOMAIN fragments :
                i < j =>
                    /\ ~(~Contains(fragments[i], "operator")
                            /\ Contains(fragments[j], "operator"))
                    /\ (~Contains(fragments[i], "operator")
                            /\ ~Contains(fragments[j], "operator"))
                         => Len(fragments[i]) >= Len(fragments[j])

(***************************************************************************)
(* C12.  Idempotence of the aggregation: a second call with the same       *)
(* list, the disk being as the first call left it, leaves every file with  *)
(* the content it had after the first call.                                *)
(***************************************************************************)
C12_Idempotent ==
    Len(returned) >= 2 =>
        \A k \in 2..Len(returned) :
            /\ returned[k].before = returned[k - 1].after
            /\ DOMAIN returned[k].after = DOMAIN returned[k - 1].after
            /\ \A path \in DOMAIN returned[k].after :
                  returned[k].after[path] = returned[k - 1].after[path]

\* two calls have returned; the first wrote a primary manifest and a global
\* descriptor of two references
C12_Witness ==
    /\ Len(returned) = 2
    /\ \E e \in Range(returned[1].oplog) :
         e.op = "write" /\ e.path # MainSkaffold
    /\ Len(returned[1].after[MainSkaffold].requires) >= 2

(***************************************************************************)
(* C13.  Missing bundle directory: when the directory of a resolved        *)
(* component with a dir_name is not on disk, the call does not abort; it   *)
(* writes a primary manifest with an empty requires list for it, and the   *)
(* global descriptor with the references of all components with a bundle.  *)
(***************************************************************************)
C13_MissingBundleRecoverable ==
    \A i \in DOMAIN resolved_components :
        LET dir_name == heap[resolved_components[i]].dir_name
        IN  (ResolveReturned /\ dir_name # "" /\ dir_name \notin dirs) =>
                /\ error = "none"
                /\ pc = "returned" =>
                      /\ PrimaryManifest(dir_name) \in DOMAIN fs
                      /\ fs[PrimaryManifest(dir_name)].requires = <<>>
                      /\ fs[MainSkaffold].requires = ReferencesOf(resolved_components)

(***************************************************************************)
(* C14.  Build reference: as_skaffold_dependency of a component with a     *)
(* dir_name is '../<dir_name>/skaffold.yaml'; resolved from any bundle     *)
(* directory under the output root it denotes the primary manifest of the  *)
(* component, the file a call of generate_skaffolds writes when it is      *)
(* absent and lists in the global descriptor when the component is in the  *)
(* resolved order.  No action changes the heap, so the projection of every *)
(* component is looked at in the states before the first call.             *)
(***************************************************************************)
C14_BuildReference ==
    \A o \in Obj :
        heap[o].dir_name # "" =>
            LET reference == as_skaffold_dependency(heap[o])
                primary == PrimaryManifest(heap[o].dir_name)
            IN  /\ pc = "idle" =>
                      /\ DOMAIN reference = {"path"}
                      /\ \A sibling \in DirNames(heap) :
                            ResolvePath(GENERATED_SKAFFOLD_TMP_DIR \o "/" \o sibling,
                                        reference.path) = primary
                /\ \A k \in DOMAIN returned :
                      o \in Range(returned[k].resolved_components) =>
                          /\ primary \in DOMAIN returned[k].after
                          /\ primary \notin DOMAIN returned[k].before =>
                                \E e \in Range(returned[k].oplog) :
                                    e.op = "write" /\ e.path = primary
                          /\ \E j \in DOMAIN returned[k].after[MainSkaffold].requires :
                                ResolvePath(GENERATED_SKAFFOLD_TMP_DIR,
                                    returned[k].after[MainSkaffold].requires[j].path)
                                  = primary

\* a call has returned that resolved a component together with a dependency
\* of it in another bundle, whose primary manifest the call wrote
C14_Witness ==
    /\ Len(returned) = 1
    /\ \E o, d \in Range(resolved_components) :
         /\ d \in DependsOn(o)
         /\ heap[d].dir_name # ""
         /\ heap[o].dir_name \notin {"", heap[d].dir_name}
         /\ PrimaryManifest(heap[d].dir_name) \notin DOMAIN initial
         /\ PrimaryManifest(heap[d].dir_name) \in DOMAIN fs

\* the last generator call has just ended, by a return or by an exception
GeneratorEnded == pc = "idle" \/ (pc = "raised" /\ error = "TypeError")

\* the dependencies a delivery manifest declares (none without the key)
DeclaredDependsOn(fleet_config) ==
    IF "dependsOn" \in DOMAIN fleet_config THEN fleet_config.dependsOn ELSE <<>>

(***************************************************************************)
(* C15.  Delivery reference: the fleet.yaml a generator writes when it is  *)
(* called with depends_on = [D1, ..., Dn] has the dependsOn list           *)
(* [{name: D1.fleet_name}, ..., {name: Dn.fleet_name}], in that order, and *)
(* the empty list when depends_on is None or empty.                        *)
(***************************************************************************)
C15_DeliveryReference ==
    (generator_calls # <<>> /\ GeneratorEnded) =>
        LET call == generator_calls[Len(generator_calls)]
            fleet == BundleRoot(call.dir_name) \o "fleet.yaml"
        IN  /\ fleet \in DOMAIN fs
            /\ DeclaredDependsOn(fs[fleet]) =
                  (IF Truthy(call.depends_on)
                   THEN [i \in DOMAIN call.depends_on |->
                            [name |-> heap[call.depends_on[i]].fleet_name]]
                   ELSE <<>>)

\* the first call of visit_component on a value with the identity of o
FirstMet(o) ==
    CHOOSE k \in DOMAIN walk :
        /\ Id(walk[k].comp) = Id(o)
        /\ \A l \in 1..(k - 1) : Id(walk[l].comp) # Id(o)

(***************************************************************************)
(* C16.  First-wins representative: of the Component values of one         *)
(* identity that the walk meets, the returned list keeps the one the walk  *)
(* met first.                                                              *)
(***************************************************************************)
C16_FirstWins ==
    ResolveReturned =>
        \A i \in DOMAIN resolved_components :
            resolved_components[i] = walk[FirstMet(resolved_components[i])].comp

(***************************************************************************)
(* C17.  depends_on is always defined: a Component can be constructed with *)
(* depends_on=[...], every Component value has the attribute, and          *)
(* _resolve_dependencies reads it of every component without error.        *)
(***************************************************************************)
C17_DependsOnDefined ==
    /\ error \notin {"TypeError", "AttributeError"}
    /\ \A o \in DOMAIN heap : heap[o].depends_on # Missing

\* a file whose own name is that of a secondary build manifest
IsSecondaryManifest(path) ==
    /\ StartsWith(Basename(path), "skaffold-")
    /\ ~StartsWith(Basename(path), "skaffold-with-build-")

(***************************************************************************)
(* C18.  Fragment discovery filter: of the files on disk at the time of    *)
(* the glob of a bundle, the ones collected are exactly those under the    *)
(* bundle directory whose own file name starts with skaffold- and not      *)
(* with skaffold-with-build-.                                              *)
(***************************************************************************)
C18_DiscoveryFilter ==
    \A e \in Globs :
        \A path \in e.files :
            path \in Range(FragmentsOf(e.found))
                <=> (StartsWith(path, e.path) /\ IsSecondaryManifest(path))

\* the path below the bundle directory, from the bundle directory
RelativeToBundle(filepath, bundle_root) ==
    "./" \o SubSeq(filepath, Len(bundle_root) + 1, Len(filepath))

(***************************************************************************)
(* C19.  Synthesized primary manifest: when a call of generate_skaffolds   *)
(* has returned, the primary manifest of a bundle that had none exists,    *)
(* and its requires list is the fragments discovered in the bundle, in     *)
(* discovery order, each as './<path below the bundle directory>'.         *)
(***************************************************************************)
C19_SynthesizedPrimary ==
    \A k \in DOMAIN returned :
        \A e \in Range(returned[k].oplog) :
            LET primary == e.path \o "skaffold.yaml"
                fragments == FragmentsOf(e.found)
            IN  (e.op = "glob" /\ primary \notin e.files) =>
                    /\ primary \in DOMAIN returned[k].after
                    /\ returned[k].after[primary].requires =
                          [i \in DOMAIN fragments |->
                              [path |-> RelativeToBundle(fragments[i], e.path)]]

\* the bundle directories of the components of q that have one, in order
RECURSIVE BundlesOf(_)
BundlesOf(q) ==
    IF q = <<>> THEN <<>>
    ELSE (IF heap[Head(q)].dir_name = "" THEN <<>>
          ELSE <<BundleRoot(heap[Head(q)].dir_name)>>)
         \o BundlesOf(Tail(q))

\* the bundle directories globbed in a log, in order
RECURSIVE GlobbedIn(_)
GlobbedIn(log) ==
    IF log = <<>> THEN <<>>
    ELSE (IF Head(log).op = "glob" THEN <<Head(log).path>> ELSE <<>>)
         \o GlobbedIn(Tail(log))

(***************************************************************************)
(* C20.  Write ordering: the filesystem operations of a call follow the    *)
(* resolved order, one component after the other: the globs are those of   *)
(* the bundles of the components processed so far, in resolved order, a    *)
(* primary manifest is written right after the glob of its bundle, and     *)
(* the global descriptor is written once, as the last operation, when the  *)
(* last component has been processed.                                      *)
(***************************************************************************)
C20_WriteOrdering ==
    /\ pc = "loop" =>
          /\ GlobbedIn(oplog) = BundlesOf(SubSeq(resolved_components, 1, position - 1))
          /\ \A n \in DOMAIN oplog : oplog[n].path # MainSkaffold
    /\ pc = "returned" =>
          /\ GlobbedIn(oplog) = BundlesOf(resolved_components)
          /\ oplog[Len(oplog)] = WriteOp(MainSkaffold)
          /\ \A n \in 1..(Len(oplog) - 1) : oplog[n].path # MainSkaffold
    /\ \A n \in DOMAIN oplog :
          (oplog[n].op = "write" /\ oplog[n].path # MainSkaffold) =>
              /\ n > 1
              /\ oplog[n - 1].op = "glob"
              /\ oplog[n].path = oplog[n - 1].path \o "skaffold.yaml"

\* a call has returned that resolved three components, one of them
\* metadata-only, and globbed two bundles and wrote their primary manifests
C20_Witness ==
    /\ pc = "returned"
    /\ Len(resolved_components) = 3
    /\ Len(oplog) = 5
    /\ oplog[1].op = "glob"
    /\ oplog[2].op = "write"
    /\ oplog[3].op = "glob"
    /\ oplog[3].path # oplog[1].path
    /\ oplog[4].op = "write"

(***************************************************************************)
(* C21.  Components are consumed immutably: no step of a call of           *)
(* generate_skaffolds (the resolution, the loop over the bundles, the      *)
(* write of the global descriptor) changes the input list or any field of  *)
(* any Component object.                                                   *)
(***************************************************************************)
C21_ConsumedImmutably ==
    [][heap' = heap /\ components' = components]_vars

\* two calls have returned on a list with a root that has dependencies
C21_Witness ==
    /\ pc = "returned"
    /\ Len(returned) = MaxCalls
    /\ Len(components) = MaxRoots
    /\ \E i \in DOMAIN components : Truthy(heap[components[i]].depends_on)

(***************************************************************************)
(* C22.  Completeness of the resolved order: for an acyclic input, every   *)
(* component reachable from a root through depends_on (also through a      *)
(* value that shares its identity with a value visited earlier) has a      *)
(* component of its identity in the returned list.                         *)
(***************************************************************************)
C22_Complete ==
    (ResolveReturned /\ AcyclicInput) =>
        \A o \in Reachable :
            \E i \in DOMAIN resolved_components : Id(resolved_components[i]) = Id(o)

\* the components passed in depends_on to the generator call that built object x
DeclaredTo(x) ==
    IF Truthy(generator_calls[x].depends_on) THEN Range(generator_calls[x].depends_on)
    ELSE {}

\* the reference to the primary manifest of object o in the global descriptor
ReferenceTo(o) == [path |-> heap[o].dir_name \o "/skaffold.yaml"]

\* a call of generate_skaffolds on the generated components has ended
AggregationEnded ==
    \/ pc = "returned"
    \/ pc = "raised" /\ error # "TypeError"

(***************************************************************************)
(* C23.  Ordering respects the dependencies declared to the generators:    *)
(* when generate_skaffolds has been called on the components the           *)
(* generators returned, every component X of the list and every component  *)
(* D that was passed in depends_on to the generator of X are both in the   *)
(* resolved order, and the reference to the primary manifest of D stands   *)
(* before that of X in the global build descriptor.                        *)
(***************************************************************************)
C23_DeclaredOrder ==
    AggregationEnded =>
        \A x \in Range(components) : \A d \in DeclaredTo(x) :
            /\ pc = "returned"
            /\ {x, d} \subseteq Range(resolved_components)
            /\ LET requires == fs[MainSkaffold].requires
               IN  /\ IndexOf(requires, ReferenceTo(d)) > 0
                   /\ IndexOf(requires, ReferenceTo(d)) < IndexOf(requires, ReferenceTo(x))

(***************************************************************************)
(* C25.  No duplicate references: the requires list of the global build    *)
(* descriptor a call has written holds each primary-manifest path at most  *)
(* once, also when two components of different identity have the same      *)
(* dir_name.                                                               *)
(***************************************************************************)
C25_NoDuplicateReferences ==
    pc = "returned" =>
        LET requires == fs[MainSkaffold].requires
        IN  \A i, j \in DOMAIN requires : i # j => requires[i] # requires[j]

\* os.path.join(directory, relative) for a path below the output root
BelowOutputRoot(relative) == GENERATED_SKAFFOLD_TMP_DIR \o "/" \o relative

(***************************************************************************)
(* C27.  No dangling reference in the global descriptor: when a call of    *)
(* generate_skaffolds has returned, every path in the requires of          *)
(* skaffold--main--all.yaml, taken from the output root, is a primary      *)
(* manifest file that exists (it was there before or the call wrote it).   *)
(***************************************************************************)
C27_NoDanglingReference ==
    pc = "returned" =>
        LET requires == fs[MainSkaffold].requires
        IN  \A i \in DOMAIN requires :
                /\ Basename(requires[i].path) = "skaffold.yaml"
                /\ BelowOutputRoot(requires[i].path) \in DOMAIN fs

\* a descriptor with a reference to a primary manifest that was there before
\* the call and one to a primary manifest the call wrote
C27_Witness ==
    /\ pc = "returned"
    /\ Len(returned) = 1
    /\ \E i, j \in DOMAIN fs[MainSkaffold].requires :
         /\ BelowOutputRoot(fs[MainSkaffold].requires[i].path) \in DOMAIN initial
         /\ BelowOutputRoot(fs[MainSkaffold].requires[j].path) \notin DOMAIN initial

\* a call of _resolve_dependencies has just returned its list
JustResolved == pc = "loop" /\ position = 1

(***************************************************************************)
(* C28.  Resolve is a fixed point on its own output: for an acyclic input  *)
(* list L, _resolve_dependencies(_resolve_dependencies(L)) is the list     *)
(* _resolve_dependencies(L), element for element and in the same order.    *)
(***************************************************************************)
C28_FixedPoint ==
    (JustResolved /\ AcyclicInput) =>
        LET again == _resolve_dependencies(heap, resolved_components)
        IN  /\ again.raised = "none"
            /\ again.resolved_components = resolved_components

\* an output of three components, one of them with dependencies, from a walk
\* that met an identity twice
C28_Witness ==
    /\ JustResolved
    /\ AcyclicInput
    /\ Len(resolved_components) >= 3
    /\ \E i \in DOMAIN resolved_components :
         Truthy(heap[resolved_components[i]].depends_on)
    /\ \E k \in DOMAIN walk : walk[k].skipped
    /\ resolved_components # components

\* the call of event k of the walk made no call of visit_component
MadeNoCall(k) == k = Len(walk) \/ walk[k + 1].depth <= walk[k].depth

C24_UnambiguousFleetNames ==
    \A x, y \in DOMAIN heap :
        Id(x) # Id(y) => heap[x].fleet_name # heap[y].fleet_name

(***************************************************************************)
(* C26.  Every bundle is aggregated: when the call of generate_skaffolds   *)
(* in the driver has returned, every bundle directory a generator wrote in *)
(* the run holds a primary manifest skaffold.yaml and is referenced        *)
(* exactly once in skaffold--main--all.yaml, also when its component is    *)
(* not in the list handed to generate_skaffolds nor reachable from it.     *)
(***************************************************************************)
C26_EveryBundleAggregated ==
    (pc = "returned" /\ Len(returned) = 1) =>
        \A k \in DOMAIN generator_calls :
            LET dir_name == generator_calls[k].dir_name
            IN  /\ PrimaryManifest(dir_name) \in DOMAIN fs
                /\ Cardinality(Positions(fs[MainSkaffold].requires,
                                         [path |-> dir_name \o "/skaffold.yaml"])) = 1

\* the run configurations of build manifests among the files
BuildRunConfigurations ==
    {path \in DOMAIN fs :
        /\ StartsWith(path, RunConfigurations)
        /\ "skaffoldConfigurationFilePath" \in DOMAIN fs[path]}

(***************************************************************************)
(* C30.  Run configurations point to files that survive the run: when      *)
(* generate_all_skaffolds has returned (the temporary root synced to the   *)
(* final directory and removed), every run configuration that              *)
(* generate_intelij_skaffolds_run_configurations wrote names a build       *)
(* manifest file that exists.                                              *)
(***************************************************************************)
C30_RunConfigurationsSurvive ==
    pc = "done" =>
        \A path \in BuildRunConfigurations :
            fs[path].skaffoldConfigurationFilePath \in DOMAIN fs

====
